---- MODULE Spec2Model ----
(***************************************************************************)
(* Model of DrmAtomicStateManager (src/drm/DrmAtomicStateManager.cpp):     *)
(* the caller thread running ExecuteAtomicCommit / CommitFrame, the        *)
(* tracker thread running ThreadFn, the kernel accepting or rejecting      *)
(* atomic transactions and signalling out-fences.                          *)
(*                                                                         *)
(* Optional values (std::optional, shared_ptr that may be null) are sets   *)
(* with at most one element: {} is "not set".  A SharedFd is a natural     *)
(* number, 0 being the empty handle.  A property blob is a natural number, *)
(* 0 being the null blob.                                                  *)
(***************************************************************************)
EXTENDS Integers, Sequences, FiniteSets, TLC

\* ---------------------------------------------------------------- bounds
\* Number of real commits the kernel accepts; it rejects every later one (this
\* bounds frames_staged_, frames_tracked_ and the fence numbers).
MaxFrames == 2

\* The same number for the runs of the caller thread alone.
SeqFrames == 3

\* ------------------------------------------------------ program constants
ENOMEM == 12
EINVAL == 22

NoFence == 0
NullBlob == 0

\* The hardware planes of the pipeline and the inputs the caller draws from.
Planes == {"planeA", "planeB"}
Modes == {1}
ColorMatrices == {1}

\* A composition plan is a sequence of joinings (plane, layer.fb, z_pos).
Joining(p, fb, z) == [plane |-> p, fb |-> fb, z_pos |-> z]
Plans ==
    { << >>,
      << Joining("planeA", 1, 0) >>,
      << Joining("planeB", 2, 1), Joining("planeA", 1, 0) >> }

\* AtomicCommitArgs: the request fields plus the out_fence result.
AtomicCommitArgs(t, a, m, c, p) ==
    [test_only |-> t, active |-> a, display_mode |-> m, color_matrix |-> c,
     composition |-> p, out_fence |-> NoFence]

AllRequests ==
    { AtomicCommitArgs(t, a, m, c, p) :
        t \in BOOLEAN,
        a \in {{}, {TRUE}, {FALSE}},
        m \in {{}} \cup {{x} : x \in Modes},
        c \in {{}} \cup {{x} : x \in ColorMatrices},
        p \in {{}} \cup {{x} : x \in Plans} }

FieldCount(r) ==
    Cardinality(r.active) + Cardinality(r.display_mode)
    + Cardinality(r.color_matrix) + Cardinality(r.composition)

\* The requests the caller draws from: the empty request and every request
\* with one field, the validation-only requests with a plan or nothing, and
\* the activation request {active, mode, empty plan}.
Requests ==
    { r \in AllRequests :
        /\ FieldCount(r) <= 1
        /\ r.test_only => r.active = {} /\ r.display_mode = {} /\ r.color_matrix = {} }
    \cup { AtomicCommitArgs(FALSE, {TRUE}, {1}, {}, {<< >>}) }

\* Every combination of the active flag, the display mode, the composition
\* plan and the validation-only flag, and the color matrix on its own.
CallerRequests == { r \in AllRequests : r.color_matrix = {} \/ FieldCount(r) = 1 }

\* The requests that differ in how CommitFrame uses the locks: nothing to
\* do, a blocking activation, a non-blocking plane update, a validation.
LockRequests ==
    { AtomicCommitArgs(FALSE, {}, {}, {}, {}),
      AtomicCommitArgs(FALSE, {TRUE}, {1}, {}, {<< >>}),
      AtomicCommitArgs(FALSE, {}, {}, {}, {<< Joining("planeA", 1, 0) >>}),
      AtomicCommitArgs(TRUE, {}, {}, {}, {<< Joining("planeA", 1, 0) >>}) }

\* AtomicCommitArgs cl_args{}; cl_args.composition = make_shared<DrmKmsPlan>()
RecoveryArgs == AtomicCommitArgs(FALSE, {}, {}, {}, {<< >>})

\* args.HasInputs()
HasInputs(a) ==
    a.display_mode # {} \/ a.active # {} \/ a.composition # {} \/ a.color_matrix # {}

\* KmsState.  seq is a history field: the ordinal of the accepted real commit
\* that built the state (0 for the state the object is constructed with).
KmsState(act, mode, ctm, planes, fbs, n) ==
    [crtc_active_state |-> act, mode_blob |-> mode, ctm_blob |-> ctm,
     used_planes |-> planes, used_framebuffers |-> fbs, seq |-> n]

InitialKmsState == KmsState(FALSE, NullBlob, NullBlob, << >>, << >>, 0)

\* What std::move leaves behind in staged_frame_state_: emptied vectors and
\* null blobs; the bool is copied.
MovedFrom(s) == KmsState(s.crtc_active_state, NullBlob, NullBlob, << >>, << >>, 0)

\* NewFrameState(): the planes and the active flag of the active state are
\* carried over, blobs and framebuffer holds start empty.
NewFrameState(prev) ==
    KmsState(prev.crtc_active_state, NullBlob, NullBlob, prev.used_planes, << >>, 0)

\* drmModeAtomicReq under construction.
EmptyPset ==
    [out_fence_ptr |-> FALSE, active |-> {}, crtc_id |-> FALSE, mode |-> {},
     ctm |-> {}, planes |-> << >>, disabled |-> << >>]

\* ------------------------------------------------- CommitFrame, lines 54-156
\* std::remove + erase: every occurrence of x is taken out of v.
RECURSIVE Erase(_, _)
Erase(v, x) ==
    IF v = << >> THEN << >>
    ELSE IF Head(v) = x THEN Erase(Tail(v), x)
    ELSE << Head(v) >> \o Erase(Tail(v), x)

RECURSIVE EraseAll(_, _)
EraseAll(v, xs) ==
    IF xs = << >> THEN v ELSE EraseAll(Erase(v, Head(xs)), Tail(xs))

\* Variant: the guard is missing.
IdempotenceGuard_Off(a, active_state) == a

\* "Don't set the same state twice"
IdempotenceGuard(a, active_state) ==
    IF a.active # {} /\ a.active = {active_state.crtc_active_state}
    THEN [a EXCEPT !.active = {}]
    ELSE a

\* Variant: no activation is forced.
ForceActivate_Off(a, active_state) == a

\* "Force activate display"
ForceActivate(a, active_state) ==
    IF ~active_state.crtc_active_state THEN [a EXCEPT !.active = {TRUE}] ELSE a

\* Variant: a display-mode change makes the commit blocking as well.
Nonblock_ModeBlocks(a) == a.active = {} /\ a.display_mode = {}

\* bool nonblock = true; if (args.active) nonblock = false;
Nonblock(a) == a.active = {}

\* if (args.active) { ... }
ApplyActive(a, b) ==
    IF a.active = {} THEN b
    ELSE LET v == CHOOSE x \in a.active : TRUE IN
         [b EXCEPT !.state.crtc_active_state = v,
                   !.pset.active = {IF v THEN 1 ELSE 0},
                   !.pset.crtc_id = TRUE]

\* if (args.display_mode) { ... }: the blob registered for mode m is m.
ApplyMode(a, b) ==
    IF a.display_mode = {} THEN b
    ELSE LET m == CHOOSE x \in a.display_mode : TRUE IN
         [b EXCEPT !.state.mode_blob = m, !.pset.mode = {m}]

\* if (args.color_matrix && crtc->GetCtmProperty()) { ... }
ApplyCtm(a, ctm_supported, b) ==
    IF a.color_matrix = {} \/ ~ctm_supported THEN b
    ELSE LET c == CHOOSE x \in a.color_matrix : TRUE IN
         [b EXCEPT !.state.ctm_blob = c, !.pset.ctm = {c}]

\* The planes of a plan, in plan order.
PlanPlanes(plan) == [i \in 1..Len(plan) |-> plan[i].plane]

\* Variant: most_bottom is never cleared.
PlanBindings_AllBottom(plan) ==
    [i \in 1..Len(plan) |->
        [plane |-> plan[i].plane, fb |-> plan[i].fb, z_pos |-> plan[i].z_pos,
         most_bottom |-> TRUE]]

\* plane->AtomicSetState(pset, layer, z_pos, crtc_id, most_bottom) per joining.
PlanBindings(plan) ==
    [i \in 1..Len(plan) |->
        [plane |-> plan[i].plane, fb |-> plan[i].fb, z_pos |-> plan[i].z_pos,
         most_bottom |-> (i = 1)]]

\* unused_planes after the loop: the previous planes the plan does not re-use.
UnusedPlanes(prev_planes, plan) == EraseAll(prev_planes, PlanPlanes(plan))

\* if (args.composition) { bind the plan } if (args.composition) { disable rest }
ApplyComposition(a, b) ==
    IF a.composition = {} THEN b
    ELSE LET plan == CHOOSE x \in a.composition : TRUE IN
         [b EXCEPT !.state.used_planes = PlanPlanes(plan),
                   !.state.used_framebuffers =
                       b.state.used_framebuffers \o [i \in 1..Len(plan) |-> plan[i].fb],
                   !.pset.planes = PlanBindings(plan),
                   !.pset.disabled = UnusedPlanes(b.state.used_planes, plan)]

\* The places of lines 75-156 at which the build can fail for request a (after
\* the guard and the forced activation) with previous state prev.
FailPoints(a, prev, ctm_supported) ==
    {"none", "alloc", "out_fence"}
    \cup (IF a.active # {} THEN {"active"} ELSE {})
    \cup (IF a.display_mode # {} THEN {"mode_blob", "mode_prop"} ELSE {})
    \cup (IF a.color_matrix # {} /\ ctm_supported THEN {"ctm_blob", "ctm_prop"} ELSE {})
    \cup (IF a.composition # {} /\ (CHOOSE x \in a.composition : TRUE) # << >>
          THEN {"plane_set"} ELSE {})
    \cup (IF a.composition # {}
             /\ UnusedPlanes(prev.used_planes, CHOOSE x \in a.composition : TRUE) # << >>
          THEN {"plane_disable"} ELSE {})

FailCode(fail) == IF fail = "alloc" THEN -ENOMEM ELSE -EINVAL

\* The transaction and the prospective frame state one CommitFrame builds.
BuildFrame(a, active_state, ctm_supported) ==
    LET b0 == [state |-> NewFrameState(active_state),
               pset |-> [EmptyPset EXCEPT !.out_fence_ptr = TRUE]]
    IN  ApplyComposition(a, ApplyCtm(a, ctm_supported, ApplyMode(a, ApplyActive(a, b0))))

\* ------------------------------------------------------------------ state
VARIABLES
    \* DrmAtomicStateManager members
    active_frame_state_, staged_frame_state_, last_present_fence_,
    frames_staged_, frames_tracked_, exit_thread_,
    \* the pipeline: whether the CRTC has a CTM property; owners of the object
    ctm_property, use_count,
    \* GetMainLock() owner and the condition variable cv_
    main_mutex, cv_notified,
    \* caller thread: position, ExecuteAtomicCommit's args and cl_args, the
    \* CommitFrame in progress (phase, locals), return values
    cpc, phase, args, cl_args, cf, err, eac_err, ret,
    \* tracker thread (ThreadFn): position and locals
    tpc, tracking_at_the_moment, present_fence,
    \* kernel: out-fences that have signalled, the hardware planes that are
    \* enabled, the number of real commits it accepts
    signaled, hw_planes, frame_limit,
    \* a failed assert() aborts the process
    assert_failed,
    \* history: accepted real commits, the frames installed as active, the
    \* fences a sync_wait has returned on, and, for the ExecuteAtomicCommit in
    \* progress, its CommitFrame calls and its notify_all calls
    accepted, installed, waited, attempts, notifies

engine_vars ==
    << active_frame_state_, staged_frame_state_, last_present_fence_,
       frames_staged_, frames_tracked_ >>
caller_vars == << cpc, phase, args, cl_args, cf, err, eac_err, ret, attempts, notifies >>
tracker_vars == << tpc, tracking_at_the_moment, present_fence >>
history_vars == << accepted, installed, waited >>

vars ==
    << engine_vars, exit_thread_, ctm_property, use_count, main_mutex, cv_notified,
       caller_vars, tracker_vars, signaled, hw_planes, frame_limit, assert_failed,
       history_vars >>

\* The engine state the claims speak of, as one value.
Engine ==
    [active |-> active_frame_state_, staged |-> staged_frame_state_,
     fence |-> last_present_fence_, staged_n |-> frames_staged_,
     tracked_n |-> frames_tracked_]

NoLocals == [nonblock |-> TRUE, state |-> InitialKmsState, pset |-> EmptyPset]
NoArgs == AtomicCommitArgs(FALSE, {}, {}, {}, {})

\* The object as CreateInstance returns it, the tracker thread started.
Created ==
    /\ active_frame_state_ = InitialKmsState
    /\ staged_frame_state_ = InitialKmsState
    /\ last_present_fence_ = NoFence
    /\ frames_staged_ = 0
    /\ frames_tracked_ = 0
    /\ exit_thread_ = FALSE
    /\ ctm_property \in BOOLEAN
    /\ use_count = 2
    /\ main_mutex = "free"
    /\ cv_notified = FALSE
    /\ cpc = "idle"
    /\ phase = "main"
    /\ args = NoArgs
    /\ cl_args = NoArgs
    /\ cf = NoLocals
    /\ err = 0
    /\ eac_err = 0
    /\ ret = 0
    /\ tpc = "top"
    /\ tracking_at_the_moment = -1
    /\ present_fence = NoFence
    /\ signaled = {}
    /\ hw_planes = {}
    /\ assert_failed = FALSE
    /\ accepted = 0
    /\ installed = << >>
    /\ waited = {}
    /\ attempts = << >>
    /\ notifies = 0

\* Both threads: a CRTC with a CTM property (CallerSpec has both kinds).
Init == Created /\ ctm_property /\ frame_limit = MaxFrames

\* ------------------------------------------------------- shared operations
\* Variant: the wait is not made.
SyncWait_Skipped(fence) == waited

\* sync_wait(fence, kTimeoutMs) returns 0 when the fence has signalled and an
\* error when the bounded wait elapses first; the callers only log the error,
\* so all that is left of the call is that the wait on the fence has been
\* made.  The value is the set of fences waited on so far.
SyncWait(fence) == waited \cup {fence}

\* cv_.notify_all(): only a thread blocked in cv_.wait() is woken.
NotifyAll == IF tpc = "waiting" THEN TRUE ELSE cv_notified

\* assert(frames_staged_ - frames_tracked_ == 1); assert(last_present_fence_);
CleanupAsserts ==
    frames_staged_ - frames_tracked_ = 1 /\ last_present_fence_ # NoFence

\* Variant: the staged state is not moved into the active state.
Cleanup_NoMove ==
    /\ frames_tracked_' = frames_tracked_ + 1
    /\ last_present_fence_' = NoFence
    /\ UNCHANGED << active_frame_state_, staged_frame_state_, frames_staged_,
                    installed, assert_failed >>

\* Variant: the tracked fence is not cleared.
Cleanup_KeepFence ==
    IF CleanupAsserts
    THEN /\ frames_tracked_' = frames_tracked_ + 1
         /\ active_frame_state_' = staged_frame_state_
         /\ staged_frame_state_' = MovedFrom(staged_frame_state_)
         /\ installed' = Append(installed, staged_frame_state_.seq)
         /\ UNCHANGED << last_present_fence_, frames_staged_, assert_failed >>
    ELSE /\ assert_failed' = TRUE
         /\ UNCHANGED << engine_vars, installed >>

\* CleanupPriorFrameResources()
CleanupPriorFrameResources ==
    IF CleanupAsserts
    THEN /\ frames_tracked_' = frames_tracked_ + 1
         /\ active_frame_state_' = staged_frame_state_
         /\ staged_frame_state_' = MovedFrom(staged_frame_state_)
         /\ last_present_fence_' = NoFence
         /\ installed' = Append(installed, staged_frame_state_.seq)
         /\ UNCHANGED << frames_staged_, assert_failed >>
    ELSE /\ assert_failed' = TRUE
         /\ UNCHANGED << engine_vars, installed >>

\* ----------------------------------------------------------- caller thread
\* drmModeAtomicCommit with DRM_MODE_ATOMIC_TEST_ONLY: the kernel finds the
\* transaction feasible (0) or not.
TestResults == {0, -EINVAL}

\* A real drmModeAtomicCommit: the kernel accepts (0) or rejects the transaction.
KernelResults == IF accepted < frame_limit THEN {0, -EINVAL} ELSE {-EINVAL}

\* A record of one drmModeAtomicCommit call: its flags, the engine state it
\* was made in, the transaction and the result.
KernelCall(test, nonblock, pset, res) ==
    [test |-> test, nonblock |-> nonblock, pset |-> pset, res |-> res,
     fence |-> last_present_fence_, staged_n |-> frames_staged_,
     tracked_n |-> frames_tracked_]

\* History of one CommitFrame call: the args and the engine state on entry,
\* and once it has returned (done) its result, its kernel call if it made
\* one, and the engine state on return.
Attempt(a) ==
    [args |-> a, engine |-> Engine, done |-> FALSE, ret |-> 0, kcall |-> {},
     after |-> Engine]

Done(att, r, kc, eng) ==
    [att EXCEPT ![Len(att)].done = TRUE, ![Len(att)].ret = r,
                ![Len(att)].kcall = kc, ![Len(att)].after = eng]

\* The failures that can be met while building the transaction for request a.
BuildFails(a) ==
    LET a1 == IdempotenceGuard(a, active_frame_state_)
    IN  IF ~HasInputs(a1) THEN {"none"}
        ELSE FailPoints(ForceActivate(a1, active_frame_state_), active_frame_state_,
                        ctm_property)

\* CommitFrame from its entry to the validation-only commit (lines 50-163),
\* meeting failure `fail` and, for a validation-only request, kernel result
\* res: either it has returned err ("ret") or it goes on to line 165 ("go").
CommitFrameBuild(a, fail, res) ==
    LET a1 == IdempotenceGuard(a, active_frame_state_)
        a2 == ForceActivate(a1, active_frame_state_)
        b  == BuildFrame(a2, active_frame_state_, ctm_property)
    IN  IF ~HasInputs(a1)
        THEN [kind |-> "ret", args |-> a1, err |-> 0, kcall |-> {}, cf |-> NoLocals]
        ELSE IF fail # "none"
        THEN [kind |-> "ret", args |-> a2, err |-> FailCode(fail), kcall |-> {},
              cf |-> NoLocals]
        ELSE IF a2.test_only
        THEN [kind |-> "ret", args |-> a2, err |-> res,
              kcall |-> {KernelCall(TRUE, FALSE, b.pset, res)}, cf |-> NoLocals]
        ELSE [kind |-> "go", args |-> a2, err |-> 0, kcall |-> {},
              cf |-> [nonblock |-> Nonblock(a2), state |-> b.state, pset |-> b.pset]]

\* Variant: the prior frame is never drained before the new commit.
NeedsDrain_Never == FALSE

\* if (last_present_fence_) { wait, clean up }
NeedsDrain == last_present_fence_ # NoFence

AfterBuildPc == IF NeedsDrain THEN "drain" ELSE "submit"

SetCaller(pc, ph, a, cl, locals, e, ee, r, att) ==
    /\ cpc' = pc
    /\ phase' = ph
    /\ args' = a
    /\ cl_args' = cl
    /\ cf' = locals
    /\ err' = e
    /\ eac_err' = ee
    /\ ret' = r
    /\ attempts' = att

\* Variants: the test_only check is missing; the recovery is never made.
RecoveryNeeded_IgnoresTest(a, r) == r # 0
RecoveryNeeded_Never(a, r) == FALSE

\* if (!args.test_only) { if (err != 0) { ... } }
RecoveryNeeded(a, r) == ~a.test_only /\ r # 0

\* Lines 274-284: CommitFrame(cl_args) with an empty DrmKmsPlan, up to its
\* line 165; ExecuteAtomicCommit returns the original error whatever it gives.
EnterRecovery(a, orig, att) ==
    \E fail \in BuildFails(RecoveryArgs) :
        LET o == CommitFrameBuild(RecoveryArgs, fail, 0)
            att1 == Append(att, Attempt(RecoveryArgs))
        IN  IF o.kind = "go"
            THEN SetCaller(AfterBuildPc, "recovery", a, o.args, o.cf, 0, orig, 0, att1)
            ELSE SetCaller("eac_ret", "recovery", a, o.args, NoLocals, o.err, orig,
                           orig, Done(att1, o.err, o.kcall, Engine))

\* ExecuteAtomicCommit once a CommitFrame has returned r (lines 270-288).
\* eng is the engine state at that return.
AfterCommitFrame(ph, a, cl, r, att) ==
    IF ph = "main" /\ RecoveryNeeded(a, r)
    THEN EnterRecovery(a, r, att)
    ELSE SetCaller("eac_ret", ph, a, cl, NoLocals, r, eac_err,
                   IF ph = "main" THEN r ELSE eac_err, att)

\* A caller outside this file takes the device-wide main lock and calls
\* ExecuteAtomicCommit(request), which calls CommitFrame(request).
EAC_Begin(request) ==
    /\ cpc = "idle"
    /\ ~assert_failed
    /\ use_count = 2
    /\ ~exit_thread_
    /\ main_mutex = "free"
    /\ main_mutex' = "caller"
    /\ \E fail \in BuildFails(request),
          res \in (IF request.test_only THEN TestResults ELSE {0}) :
         LET o == CommitFrameBuild(request, fail, res)
             att1 == << Attempt(request) >>
         IN  IF o.kind = "go"
             THEN SetCaller(AfterBuildPc, "main", o.args, NoArgs, o.cf, 0, 0, 0, att1)
             ELSE AfterCommitFrame("main", o.args, NoArgs, o.err,
                                   Done(att1, o.err, o.kcall, Engine))
    /\ UNCHANGED << engine_vars, exit_thread_, ctm_property, frame_limit, use_count, cv_notified,
                    tracker_vars, signaled, assert_failed, accepted, hw_planes, installed,
                    waited, notifies >>

\* Lines 165-177: sync_wait(*last_present_fence_, kTimeoutMs), whose error is
\* only logged, then CleanupPriorFrameResources().
CF_Drain ==
    /\ cpc = "drain"
    /\ ~assert_failed
    /\ waited' = SyncWait(last_present_fence_)
    /\ CleanupPriorFrameResources
    /\ cpc' = "submit"
    /\ UNCHANGED << exit_thread_, ctm_property, frame_limit, use_count, main_mutex, cv_notified,
                    phase, args, cl_args, cf, err, eac_err, ret, tracker_vars,
                    signaled, accepted, hw_planes, attempts, notifies >>

\* Variant: the staged-frame counter is not incremented.
StageFrame_NoCount(state, fence) ==
    /\ last_present_fence_' = fence
    /\ staged_frame_state_' = state
    /\ cv_notified' = NotifyAll
    /\ notifies' = notifies + 1
    /\ UNCHANGED << active_frame_state_, frames_staged_, frames_tracked_, installed,
                    signaled >>

\* The non-blocking branch of lines 192-199, under mutex_.
StageFrame(state, fence) ==
    /\ last_present_fence_' = fence
    /\ staged_frame_state_' = state
    /\ frames_staged_' = frames_staged_ + 1
    /\ cv_notified' = NotifyAll
    /\ notifies' = notifies + 1
    /\ UNCHANGED << active_frame_state_, frames_tracked_, installed, signaled >>

\* Variant: the blocking branch also counts the frame as staged and wakes the
\* tracker.
InstallFrame_AlsoStaged(state, fence) ==
    /\ active_frame_state_' = state
    /\ installed' = Append(installed, state.seq)
    /\ signaled' = 1..fence
    /\ frames_staged_' = frames_staged_ + 1
    /\ cv_notified' = NotifyAll
    /\ notifies' = notifies + 1
    /\ UNCHANGED << staged_frame_state_, last_present_fence_, frames_tracked_ >>

\* The blocking branch, line 201.  The kernel call returned with the
\* transaction applied, so its out-fence and every earlier one has signalled.
InstallFrame(state, fence) ==
    /\ active_frame_state_' = state
    /\ installed' = Append(installed, state.seq)
    /\ signaled' = 1..fence
    /\ UNCHANGED << staged_frame_state_, last_present_fence_, frames_staged_,
                    frames_tracked_, cv_notified, notifies >>

\* The elements of a sequence.
Range(v) == { v[i] : i \in 1..Len(v) }

\* The planes enabled once the kernel has applied transaction pset: a plane
\* the transaction binds (AtomicSetState) is enabled, one it disables
\* (AtomicDisablePlane) is not, and one it does not mention stays as it was.
KernelPlanes(hw, pset) ==
    (hw \ Range(pset.disabled)) \cup { pset.planes[i].plane : i \in 1..Len(pset.planes) }

\* Variant: the result of drmModeAtomicCommit is not looked at.
CommitAccepted_Always(res) == TRUE

\* if (err != 0) { return err; }
CommitAccepted(res) == res = 0

\* Variant: the out-fence is not handed to the caller.
MakeSharedFd_Empty(fd) == NoFence

\* args.out_fence = MakeSharedFd(out_fence)
MakeSharedFd(fd) == fd

\* The engine state after the step being taken.
EngineNext ==
    [active |-> active_frame_state_', staged |-> staged_frame_state_',
     fence |-> last_present_fence_', staged_n |-> frames_staged_',
     tracked_n |-> frames_tracked_']

\* The real drmModeAtomicCommit and what follows it (lines 179-204), then
\* ExecuteAtomicCommit's handling of the result.  The out-fence of the n-th
\* accepted commit is n.
CF_Submit ==
    /\ cpc = "submit"
    /\ ~assert_failed
    /\ \E res \in KernelResults :
         LET kc == {KernelCall(FALSE, cf.nonblock, cf.pset, res)}
             fence == accepted + 1
             state == [cf.state EXCEPT !.seq = accepted + 1]
             a == IF phase = "main" /\ CommitAccepted(res)
                  THEN [args EXCEPT !.out_fence = MakeSharedFd(fence)] ELSE args
             cl == IF phase = "recovery" /\ CommitAccepted(res)
                   THEN [cl_args EXCEPT !.out_fence = MakeSharedFd(fence)] ELSE cl_args
         IN  /\ IF ~CommitAccepted(res)
                THEN UNCHANGED << engine_vars, cv_notified, accepted, hw_planes, installed,
                                  signaled, notifies >>
                ELSE /\ accepted' = accepted + 1
                     /\ hw_planes' = KernelPlanes(hw_planes, cf.pset)
                     /\ IF cf.nonblock
                        THEN StageFrame(state, fence)
                        ELSE InstallFrame(state, fence)
             /\ AfterCommitFrame(phase, a, cl, res, Done(attempts, res, kc, EngineNext))
    /\ UNCHANGED << exit_thread_, ctm_property, frame_limit, use_count, main_mutex, tracker_vars,
                    assert_failed, waited >>

\* ExecuteAtomicCommit has returned; the caller releases the main lock.
EAC_Return ==
    /\ cpc = "eac_ret"
    /\ main_mutex' = "free"
    /\ SetCaller("idle", "main", NoArgs, NoArgs, NoLocals, 0, 0, 0, << >>)
    /\ notifies' = 0
    /\ UNCHANGED << engine_vars, exit_thread_, ctm_property, frame_limit, use_count, cv_notified,
                    tracker_vars, signaled, assert_failed, accepted, hw_planes, installed,
                    waited >>

\* ---------------------------------------------------------- tracker thread
\* if (exit_thread_ || dasm.use_count() == 1) break;
ExitRequested == exit_thread_ \/ use_count = 1

\* if (frames_staged_ <= tracking_at_the_moment) continue;
NothingNewStaged == frames_staged_ <= tracking_at_the_moment

\* Variant: the tracker cleans up whatever the caller has done meanwhile.
TrackerMustCleanup_Always == TRUE

\* "If resources is already cleaned-up by main thread, skip"
TrackerMustCleanup == tracking_at_the_moment > frames_tracked_

\* std::unique_lock lk(mutex_); cv_.wait(lk);  The thread starts to wait; a
\* notify_all issued before this point is not seen by it.
T_Wait ==
    /\ tpc = "top"
    /\ ~assert_failed
    /\ tpc' = "waiting"
    /\ cv_notified' = FALSE
    /\ UNCHANGED << engine_vars, exit_thread_, ctm_property, frame_limit, use_count, main_mutex,
                    caller_vars, tracking_at_the_moment, present_fence,
                    signaled, assert_failed, history_vars, hw_planes >>

\* Lines 219-229, run under mutex_ once cv_.wait has returned.  The read of
\* last_present_fence_ holds mutex_ only, while CommitFrame's
\* CleanupPriorFrameResources (line 176) writes it holding the main lock only:
\* the two are not ordered, and the read yields the fence as it was before or
\* after that write, which the two orders of this step and CF_Drain give.
AfterWake ==
    /\ cv_notified' = FALSE
    /\ IF ExitRequested
       THEN /\ tpc' = "exited"
            /\ UNCHANGED << tracking_at_the_moment, present_fence >>
       ELSE IF NothingNewStaged
       THEN /\ tpc' = "top"
            /\ UNCHANGED << tracking_at_the_moment, present_fence >>
       ELSE /\ tracking_at_the_moment' = frames_staged_
            /\ present_fence' = last_present_fence_
            /\ tpc' = IF last_present_fence_ = NoFence THEN "top" ELSE "sync_wait"
    /\ UNCHANGED << engine_vars, exit_thread_, ctm_property, frame_limit, use_count, main_mutex,
                    caller_vars, signaled, assert_failed, history_vars, hw_planes >>

\* cv_.wait returns because of a notify_all.
T_Wake ==
    /\ tpc = "waiting"
    /\ ~assert_failed
    /\ cv_notified
    /\ AfterWake

\* cv_.wait returns spuriously.
T_SpuriousWake ==
    /\ tpc = "waiting"
    /\ ~assert_failed
    /\ ~cv_notified
    /\ AfterWake

\* sync_wait(*present_fence, kTimeoutMs); an error is only logged.
T_SyncWait ==
    /\ tpc = "sync_wait"
    /\ ~assert_failed
    /\ waited' = SyncWait(present_fence)
    /\ tpc' = "lock_main"
    /\ UNCHANGED << engine_vars, exit_thread_, ctm_property, frame_limit, use_count, main_mutex,
                    cv_notified, caller_vars, tracking_at_the_moment, present_fence,
                    signaled, assert_failed, accepted, hw_planes, installed >>

\* Variant: the tracker goes on without the main lock.
T_LockMain_NoLock ==
    /\ tpc = "lock_main"
    /\ ~assert_failed
    /\ tpc' = "locked"
    /\ UNCHANGED << engine_vars, exit_thread_, ctm_property, frame_limit, use_count,
                    main_mutex, cv_notified, caller_vars, tracking_at_the_moment,
                    present_fence, signaled, assert_failed, history_vars, hw_planes >>

\* const std::unique_lock mlk(main_mutex);
T_LockMain ==
    /\ tpc = "lock_main"
    /\ ~assert_failed
    /\ main_mutex = "free"
    /\ main_mutex' = "tracker"
    /\ tpc' = "locked"
    /\ UNCHANGED << engine_vars, exit_thread_, ctm_property, frame_limit, use_count, cv_notified,
                    caller_vars, tracking_at_the_moment, present_fence,
                    signaled, assert_failed, history_vars, hw_planes >>

\* Lines 245-252 under main_mutex and mutex_; both are released on leaving.
T_Locked ==
    /\ tpc = "locked"
    /\ ~assert_failed
    /\ main_mutex' = "free"
    /\ present_fence' = NoFence
    /\ IF exit_thread_
       THEN /\ tpc' = "exited"
            /\ UNCHANGED << engine_vars, installed, assert_failed >>
       ELSE /\ tpc' = "top"
            /\ IF TrackerMustCleanup
               THEN CleanupPriorFrameResources
               ELSE UNCHANGED << engine_vars, installed, assert_failed >>
    /\ UNCHANGED << exit_thread_, ctm_property, frame_limit, use_count, cv_notified, caller_vars,
                    tracking_at_the_moment, signaled, accepted, hw_planes, waited >>

\* ------------------------------------------------------------- environment
\* StopThread(): exit_thread_ = true under mutex_, then cv_.notify_all().
StopThread ==
    /\ ~exit_thread_
    /\ ~assert_failed
    /\ use_count = 2
    /\ cpc = "idle"
    /\ exit_thread_' = TRUE
    /\ cv_notified' = NotifyAll
    /\ UNCHANGED << engine_vars, ctm_property, frame_limit, use_count, main_mutex, caller_vars,
                    tracker_vars, signaled, assert_failed, history_vars, hw_planes >>

\* The last external owner drops its shared_ptr: only ThreadFn's is left.
DropOwner ==
    /\ use_count = 2
    /\ cpc = "idle"
    /\ use_count' = 1
    /\ UNCHANGED << engine_vars, exit_thread_, ctm_property, frame_limit, main_mutex, cv_notified,
                    caller_vars, tracker_vars, signaled, assert_failed, history_vars, hw_planes >>

\* The kernel signals the out-fence of a non-blocking commit, oldest first.
FenceSignal ==
    /\ \E f \in 1..accepted :
         /\ f \notin signaled
         /\ \A g \in 1..(f - 1) : g \in signaled
         /\ signaled' = signaled \cup {f}
    /\ UNCHANGED << engine_vars, exit_thread_, ctm_property, frame_limit, use_count, main_mutex,
                    cv_notified, caller_vars, tracker_vars, assert_failed,
                    history_vars, hw_planes >>

\* ------------------------------------------------------------ specification
Next ==
    \/ \E request \in Requests : EAC_Begin(request)
    \/ CF_Drain
    \/ CF_Submit
    \/ EAC_Return
    \/ T_Wait
    \/ T_Wake
    \/ T_SpuriousWake
    \/ T_SyncWait
    \/ T_LockMain
    \/ T_Locked
    \/ StopThread
    \/ DropOwner
    \/ FenceSignal

Spec == Init /\ [][Next]_vars

\* The caller thread alone, with the requests of CallerRequests, on a CRTC
\* with or without a CTM property: the tracker thread is started and not
\* scheduled, so that a staged frame is always still pending when the next
\* commit arrives.
CallerInit == Created /\ frame_limit = SeqFrames

CallerNext ==
    \/ \E request \in CallerRequests : EAC_Begin(request)
    \/ CF_Drain
    \/ CF_Submit
    \/ EAC_Return

CallerSpec == CallerInit /\ [][CallerNext]_vars

\* Scheduling: a thread that can take its next step takes it (a commit in
\* progress returns, the tracker runs when it is runnable, the bounded fence
\* wait ends), and the kernel signals the fences of the frames it accepted.
\* Nothing obliges the caller to issue a request or to shut down, nor the
\* condition variable to wake spuriously.
FairSpec ==
    /\ Spec
    /\ WF_vars(CF_Drain) /\ WF_vars(CF_Submit) /\ WF_vars(EAC_Return)
    /\ WF_vars(T_Wait) /\ WF_vars(T_Wake) /\ WF_vars(T_SyncWait)
    /\ WF_vars(T_LockMain) /\ WF_vars(T_Locked)
    /\ WF_vars(FenceSignal)

\* Both threads with the requests of LockRequests.  Scheduling for the locks
\* only: a commit in progress takes its next step (its fence wait is bounded,
\* the kernel call returns), and the main lock is fair: a thread that asks
\* for it gets it if it is free again and again.
LockNext ==
    \/ \E request \in LockRequests : EAC_Begin(request)
    \/ CF_Drain
    \/ CF_Submit
    \/ EAC_Return
    \/ T_Wait
    \/ T_Wake
    \/ T_SpuriousWake
    \/ T_SyncWait
    \/ T_LockMain
    \/ T_Locked
    \/ StopThread
    \/ DropOwner
    \/ FenceSignal

LockFairSpec ==
    /\ Init /\ [][LockNext]_vars
    /\ WF_vars(CF_Drain) /\ WF_vars(CF_Submit) /\ WF_vars(EAC_Return)
    /\ SF_vars(T_LockMain)

TypeOK ==
    /\ cpc \in {"idle", "drain", "submit", "eac_ret"}
    /\ tpc \in {"top", "waiting", "sync_wait", "lock_main", "locked", "exited"}
    /\ main_mutex \in {"free", "caller", "tracker"}
    /\ frames_staged_ \in Nat /\ frames_tracked_ \in Nat
    /\ last_present_fence_ \in Nat

\* ------------------------------------------------------------------ claims
\* The real (non-test) drmModeAtomicCommit calls made so far by the
\* ExecuteAtomicCommit in progress, each with the CommitFrame that made it.
RealCalls ==
    { [att |-> attempts[i], kc |-> kc] :
        i \in 1..Len(attempts), kc \in UNION {attempts[j].kcall : j \in 1..Len(attempts)} }

IsRealCallOf(c) == c.kc \in c.att.kcall /\ ~c.kc.test

\* C1: at-most-one-outstanding.  When CommitFrame submits a real transaction
\* the engine tracks no completion fence and frames_staged_ == frames_tracked_;
\* if a fence was tracked on entry it has been waited on and the prior frame
\* has been cleaned up (frames_tracked_ advanced by one) before the call.
C1_AtMostOneOutstanding ==
    /\ cpc = "submit" =>
         last_present_fence_ = NoFence /\ frames_staged_ = frames_tracked_
    /\ \A c \in RealCalls :
         IsRealCallOf(c) =>
            /\ c.kc.fence = NoFence
            /\ c.kc.staged_n = c.kc.tracked_n
            /\ c.att.engine.fence # NoFence =>
                 /\ c.att.engine.fence \in waited
                 /\ c.kc.tracked_n = c.att.engine.tracked_n + 1

\* A real transaction has been submitted by a CommitFrame that was entered
\* with a completion fence pending.
C1_Witness ==
    \E c \in RealCalls : IsRealCallOf(c) /\ c.att.engine.fence # NoFence

\* The commit changes the active flag: the output is off on entry (activation
\* is forced), or the request asks for the flag the output does not have.
ChangesActiveFlag(att) ==
    LET cur == att.engine.active.crtc_active_state
    IN  ~cur \/ att.args.active = {~cur}

\* No frame was ever committed when the CommitFrame was entered.
IsFirstCommit(att) ==
    att.engine.active.seq = 0 /\ att.engine.staged_n = 0

C3_TestOnlyNoEffect ==
    (cpc = "eac_ret" /\ args.test_only) =>
        /\ Len(attempts) = 1
        /\ attempts[1].done
        /\ attempts[1].after = attempts[1].engine
        /\ Engine = attempts[1].engine
        /\ notifies = 0
        /\ ret = attempts[1].ret

\* A validation-only request has failed while a completion fence was pending.
C3_Witness ==
    /\ cpc = "eac_ret"
    /\ args.test_only
    /\ ret # 0
    /\ attempts[1].engine.fence # NoFence

\* C4: a failed real request is followed within the same call by exactly one
\* more CommitFrame whose request carries only an empty composition plan, and
\* the original error is returned; a successful one by no further commit.
C4_RecoveryTriggering ==
    (cpc = "eac_ret" /\ ~args.test_only) =>
        IF attempts[1].ret # 0
        THEN /\ Len(attempts) = 2
             /\ attempts[2].done
             /\ attempts[2].args.composition = {<< >>}
             /\ attempts[2].args.active = {}
             /\ attempts[2].args.display_mode = {}
             /\ attempts[2].args.color_matrix = {}
             /\ ~attempts[2].args.test_only
             /\ ret = attempts[1].ret
        ELSE Len(attempts) = 1 /\ ret = 0

\* A real request has failed and its recovery commit has failed with another
\* error.
C4_Witness ==
    /\ cpc = "eac_ret"
    /\ ~args.test_only
    /\ Len(attempts) = 2
    /\ attempts[2].ret # 0
    /\ attempts[2].ret # attempts[1].ret

\* The CommitFrame calls of the ExecuteAtomicCommit in progress that have
\* returned a failure status.
FailedAttempts ==
    { attempts[i] : i \in { j \in 1..Len(attempts) :
                             attempts[j].done /\ attempts[j].ret # 0 } }

\* The attempt got as far as the real drmModeAtomicCommit.
Submitted(att) == \E kc \in att.kcall : ~kc.test

\* The engine state e after CleanupPriorFrameResources has promoted its
\* staged frame.
Promoted(e) ==
    [active |-> e.staged, staged |-> MovedFrom(e.staged), fence |-> NoFence,
     staged_n |-> e.staged_n, tracked_n |-> e.tracked_n + 1]

\* C5 as stated: a CommitFrame that returns a failure status leaves the
\* engine state exactly as it was on entry, also with a fence pending.
C5_NoMutationAsStated ==
    \A att \in FailedAttempts : att.after = att.engine

\* C5 amended: a CommitFrame that returns a failure status never installs or
\* stages its own frame.  A failure before the real submission (allocation,
\* property, blob, or a validation-only rejection) leaves the engine state as
\* on entry.  When the kernel rejects a real transaction and a completion
\* fence was pending on entry, the prior frame has been drained first: the
\* state on return is the state on entry with the staged frame promoted.
C5_NoMutationOfOwnFrame ==
    \A att \in FailedAttempts :
        /\ att.after.staged_n = att.engine.staged_n
        /\ IF Submitted(att) /\ att.engine.fence # NoFence
           THEN att.after = Promoted(att.engine)
           ELSE att.after = att.engine

\* The kernel has rejected a real transaction of a CommitFrame entered with a
\* completion fence pending.
C5_Witness ==
    \E att \in FailedAttempts : Submitted(att) /\ att.engine.fence # NoFence

\* The request carries nothing but, at most, the active flag the output has.
NoActionableChange(att) ==
    /\ att.args.display_mode = {}
    /\ att.args.composition = {}
    /\ att.args.color_matrix = {}
    /\ att.args.active \subseteq {att.engine.active.crtc_active_state}

\* C6 as stated: every successful non-test ExecuteAtomicCommit has populated
\* the request's out_fence, no-op requests included.
C6_OutFenceAsStated ==
    (cpc = "eac_ret" /\ ~args.test_only /\ ret = 0) => args.out_fence # NoFence

\* C6 amended: a successful non-test ExecuteAtomicCommit has populated the
\* request's out_fence, with the fence of the commit just accepted, exactly
\* when a transaction was submitted; a request with no actionable change
\* after the idempotence guard returns success with out_fence left empty.
C6_OutFenceWhenSubmitted ==
    (cpc = "eac_ret" /\ ~args.test_only /\ ret = 0) =>
        IF NoActionableChange(attempts[1])
        THEN args.out_fence = NoFence /\ attempts[1].kcall = {}
        ELSE /\ Submitted(attempts[1])
             /\ args.out_fence # NoFence
             /\ args.out_fence = accepted

\* A non-blocking real request has returned success.
C6_Witness ==
    /\ cpc = "eac_ret"
    /\ ~args.test_only
    /\ ret = 0
    /\ args.out_fence # NoFence
    /\ \E kc \in attempts[1].kcall : kc.nonblock

\* The frames installed as active so far.
InstalledFrames == { installed[i] : i \in 1..Len(installed) }

\* C7 as stated: a frame state replaces the active one only once its
\* completion fence has signalled (a blocking commit's has on return); the
\* fence of frame n is n.
C7_ReplacedOnlyWhenSignaledAsStated ==
    InstalledFrames \subseteq signaled

\* C7 amended: a frame state replaces the active one (whose blobs and
\* framebuffer holds are then released) only after its blocking commit has
\* returned success, or after a bounded wait on its completion fence has
\* returned: the fence has signalled, or the wait has timed out or failed
\* and presentation is assumed.
C7_ReplacedOnlyAfterWait ==
    InstalledFrames \subseteq (signaled \cup waited)

\* The active frame state was promoted although its fence has not signalled.
C7_Witness ==
    /\ active_frame_state_.seq # 0
    /\ active_frame_state_.seq \notin signaled
    /\ frames_tracked_ >= 1

StagedAndQuiet ==
    /\ last_present_fence_ # NoFence
    /\ cpc = "idle"
    /\ ~exit_thread_
    /\ use_count = 2

\* C9: under fair scheduling a staged frame is eventually promoted and the
\* tracked fence cleared, unless the caller commits again or shuts down.
C9_AsyncPromotion == StagedAndQuiet ~> ~StagedAndQuiet

\* C10: once shutdown has set the exit flag, the tracker thread eventually
\* terminates.
C10_TrackerTerminates == exit_thread_ ~> (tpc = "exited")

\* The CommitFrame calls of the ExecuteAtomicCommit in progress that have
\* returned.
DoneAttempts ==
    { attempts[i] : i \in { j \in 1..Len(attempts) : attempts[j].done } }

\* The request's active flag is set and equals the current crtc_active_state.
SameActiveFlag(att) ==
    att.args.active = {att.engine.active.crtc_active_state}

\* The transaction leaves the CRTC active property and the connector CRTC-id
\* property alone.
ActiveUntouched(pset) == pset.active = {} /\ ~pset.crtc_id

\* C11 as stated: for a request whose active flag equals the current
\* crtc_active_state the transaction sets neither the CRTC active property nor
\* the connector CRTC-id property, whatever else the request carries and
\* whether the output is active or inactive.
C11_IdempotenceAsStated ==
    \A att \in DoneAttempts : \A kc \in att.kcall :
        SameActiveFlag(att) => ActiveUntouched(kc.pset)

\* C11 amended: for such a request on an active output the transaction sets
\* neither property, whatever else the request carries; on an inactive output
\* a request that carries another field is activated by force, its
\* transaction setting the CRTC active property to on together with the
\* connector CRTC-id (the requested value, off, is never written), and a
\* request that carries nothing else builds no transaction.
C11_IdempotenceOnActiveOutput ==
    \A att \in DoneAttempts :
        SameActiveFlag(att) =>
            /\ NoActionableChange(att) => att.kcall = {}
            /\ \A kc \in att.kcall :
                 IF att.engine.active.crtc_active_state
                 THEN ActiveUntouched(kc.pset)
                 ELSE kc.pset.active = {1} /\ kc.pset.crtc_id

\* A request with active = true and a display mode has been submitted on an
\* active output.
C11_Witness ==
    \E att \in DoneAttempts :
        /\ att.args.active = {TRUE}
        /\ att.engine.active.crtc_active_state
        /\ att.args.display_mode # {}
        /\ Submitted(att)

\* The output is inactive on entry and the request carries an actionable
\* change without asking for activation.
ForcedCase(att) ==
    /\ ~att.engine.active.crtc_active_state
    /\ att.args.active # {TRUE}
    /\ ~NoActionableChange(att)

\* The transaction switches the CRTC on and is issued without NONBLOCK.
ActivatesBlocking(kc) == kc.pset.active = {1} /\ kc.pset.crtc_id /\ ~kc.nonblock

\* C12 as stated: every such commit builds a transaction that sets the CRTC
\* active property to on, is issued blocking, and on success leaves the
\* active frame state with crtc_active_state true, validation-only requests
\* and the recovery commit included.
C12_ForcedActivationAsStated ==
    \A att \in DoneAttempts :
        ForcedCase(att) =>
            /\ \A kc \in att.kcall : ActivatesBlocking(kc)
            /\ (att.kcall # {} /\ att.ret = 0) => att.after.active.crtc_active_state

\* C12 amended: every such commit that reaches the kernel, validation-only
\* or real, the recovery commit included, carries a transaction that sets the
\* CRTC active property to on and is issued without NONBLOCK.  A real one
\* that succeeds is installed at once: the active frame state has
\* crtc_active_state true and no fence is tracked.  A validation-only one
\* that succeeds leaves the engine state as it was, the output inactive.
C12_ForcedActivation ==
    \A att \in DoneAttempts :
        ForcedCase(att) =>
            /\ \A kc \in att.kcall : ActivatesBlocking(kc)
            /\ (att.kcall # {} /\ att.ret = 0) =>
                 IF att.args.test_only
                 THEN att.after = att.engine
                 ELSE /\ att.after.active.crtc_active_state
                      /\ att.after.fence = NoFence
                      /\ att.after.staged_n = att.engine.staged_n

\* A recovery commit made on an inactive output has been accepted and has
\* switched the output on.
C12_Witness ==
    /\ Len(attempts) = 2
    /\ attempts[2].done
    /\ ForcedCase(attempts[2])
    /\ attempts[2].ret = 0
    /\ attempts[2].after.active.crtc_active_state

\* C13: a CommitFrame whose request carries no actionable change returns 0,
\* makes no kernel call, neither waits on nor cleans up a pending fence, and
\* leaves the five engine members as they were; ExecuteAtomicCommit returns
\* at once, with no further CommitFrame and nobody notified.
C13_NoOpRequest ==
    \A i \in 1..Len(attempts) :
        NoActionableChange(attempts[i]) =>
            /\ attempts[i].done
            /\ attempts[i].ret = 0
            /\ attempts[i].kcall = {}
            /\ attempts[i].after = attempts[i].engine
            /\ Engine = attempts[i].engine
            /\ attempts[i].engine.fence # NoFence =>
                 /\ last_present_fence_ = attempts[i].engine.fence
                 /\ last_present_fence_ \notin waited
            /\ Len(attempts) = 1
            /\ cpc = "eac_ret"
            /\ notifies = 0

\* A request carrying only the active flag the output already has has
\* returned while a completion fence was pending.
C13_Witness ==
    /\ cpc = "eac_ret"
    /\ attempts[1].args.active = {TRUE}
    /\ NoActionableChange(attempts[1])
    /\ last_present_fence_ # NoFence

\* The frame state of the most recently accepted real commit.
LatestFrame ==
    IF last_present_fence_ # NoFence THEN staged_frame_state_ ELSE active_frame_state_

\* The transaction of kc binds exactly the planes of the request's plan and
\* disables every plane of the active frame state seen on entry that the
\* plan does not use.
PlanBoundRestDisabled(att, kc) ==
    \A plan \in att.args.composition :
        /\ PlanPlanes(kc.pset.planes) = PlanPlanes(plan)
        /\ \A p \in Range(att.engine.active.used_planes) :
             p \notin Range(PlanPlanes(plan)) => p \in Range(kc.pset.disabled)
        /\ plan = << >> =>
             Range(kc.pset.disabled) = Range(att.engine.active.used_planes)

\* A transaction without a plan binds and disables nothing.
NoPlanNoPlaneChange(att, kc) ==
    att.args.composition = {} => kc.pset.planes = << >> /\ kc.pset.disabled = << >>

\* No plane is enabled in hardware that the most recently accepted frame
\* state does not bind.
HardwareWithinLatestFrame == hw_planes \subseteq Range(LatestFrame.used_planes)

\* C14: a commit with a composition plan binds every plane of the plan and
\* disables every plane the previous frame state binds and the plan does
\* not; a commit without a plan changes no plane; consequently, after any
\* sequence of accepted real commits, no hardware plane is enabled that the
\* most recently accepted frame state does not bind.
C14_PlaneDisabling ==
    /\ \A att \in DoneAttempts : \A kc \in att.kcall :
         PlanBoundRestDisabled(att, kc) /\ NoPlanNoPlaneChange(att, kc)
    /\ HardwareWithinLatestFrame

\* The frame state a successful real CommitFrame has staged or installed.
FrameOf(att, kc) == IF kc.nonblock THEN att.after.staged ELSE att.after.active

\* C15: the transaction binds the plan's entries one by one in plan order,
\* each plane with the framebuffer and the z-order of its own entry, the
\* first entry with the bottommost flag set and every later one with it
\* cleared; the frame state of an accepted commit lists the planes in plan
\* order.
C15_BottommostAndZOrder ==
    \A att \in DoneAttempts : \A kc \in att.kcall : \A plan \in att.args.composition :
        /\ Len(kc.pset.planes) = Len(plan)
        /\ \A i \in 1..Len(plan) :
             /\ kc.pset.planes[i].plane = plan[i].plane
             /\ kc.pset.planes[i].fb = plan[i].fb
             /\ kc.pset.planes[i].z_pos = plan[i].z_pos
             /\ kc.pset.planes[i].most_bottom <=> (i = 1)
        /\ (~kc.test /\ kc.res = 0) =>
             FrameOf(att, kc).used_planes = [i \in 1..Len(plan) |-> plan[i].plane]

\* A plan of two entries, the first with the higher z-order, has been
\* accepted.
C15_Witness ==
    \E att \in DoneAttempts : \E kc \in att.kcall : \E plan \in att.args.composition :
        /\ Len(plan) = 2
        /\ plan[1].z_pos > plan[2].z_pos
        /\ ~kc.test
        /\ kc.res = 0
        /\ ~kc.pset.planes[2].most_bottom

\* The out_fence handed back by CommitFrame number i of the call in progress.
OutFenceOf(i) == IF i = 1 THEN args.out_fence ELSE cl_args.out_fence

\* The active frame state at the kernel call of att: the one seen on entry,
\* or the staged one if a pending frame had to be drained first.
ActiveAtSubmit(att) ==
    IF att.engine.fence # NoFence THEN att.engine.staged ELSE att.engine.active

\* The frame state CommitFrame builds for att.
BuiltFrame(att) ==
    LET a1 == IdempotenceGuard(att.args, att.engine.active)
    IN  BuildFrame(ForceActivate(a1, att.engine.active), att.engine.active,
                   ctm_property).state

\* C16: when a non-blocking commit has been accepted, on return the staged
\* state is the new frame state, last_present_fence_ is the out-fence handed
\* back, frames_staged_ is one more than at the kernel call, the tracker has
\* been notified once, and the active state is what it was at the kernel
\* call, without the new bindings.  The three updates are one step: in
\* every state a tracked fence is the fence of the staged frame and
\* frames_staged_ counts that frame.
C16_NonBlockingSuccess ==
    /\ \A i \in 1..Len(attempts) : \A kc \in attempts[i].kcall :
         (~kc.test /\ kc.nonblock /\ kc.res = 0) =>
            LET att == attempts[i] IN
            /\ att.after.staged = [BuiltFrame(att) EXCEPT !.seq = att.after.fence]
            /\ att.after.fence # NoFence
            /\ att.after.fence = OutFenceOf(i)
            /\ att.after.staged_n = kc.staged_n + 1
            /\ att.after.tracked_n = kc.tracked_n
            /\ att.after.active = ActiveAtSubmit(att)
            /\ att.after.active.seq # att.after.staged.seq
            /\ notifies = 1
    /\ last_present_fence_ # NoFence =>
         /\ staged_frame_state_.seq = last_present_fence_
         /\ frames_staged_ = frames_tracked_ + 1
         /\ active_frame_state_.seq < staged_frame_state_.seq

\* A plan with planeA has been committed non-blocking on an active output
\* with no planes: it is staged and the active state still shows no planes.
C16_Witness ==
    /\ cpc = "eac_ret"
    /\ ret = 0
    /\ \E kc \in attempts[1].kcall : kc.nonblock /\ ~kc.test
    /\ staged_frame_state_.used_planes = << "planeA" >>
    /\ active_frame_state_.used_planes = << >>
    /\ active_frame_state_.crtc_active_state
    /\ last_present_fence_ # NoFence

\* Scenario 1: {active = true, mode = M1, plan = []} submitted when no frame
\* was ever committed.
IsScenario1(att) ==
    /\ IsFirstCommit(att)
    /\ att.engine.fence = NoFence
    /\ att.args = AtomicCommitArgs(FALSE, {TRUE}, {1}, {}, {<< >>})

\* C17: when a blocking commit has been accepted, on return the active state
\* is the new frame state, no fence is tracked, frames_staged_ equals
\* frames_tracked_ and is what it was on entry, and nobody has been notified;
\* a frame pending on entry has been promoted first.  From the initial state
\* the request of scenario 1 leaves the output active with mode M1 and no
\* planes bound.
C17_BlockingSuccess ==
    \A i \in 1..Len(attempts) : \A kc \in attempts[i].kcall :
        (~kc.test /\ ~kc.nonblock /\ kc.res = 0) =>
            LET att == attempts[i] IN
            /\ att.after.active = [BuiltFrame(att) EXCEPT !.seq = OutFenceOf(i)]
            /\ att.after.fence = NoFence
            /\ att.after.staged_n = att.after.tracked_n
            /\ att.after.staged_n = att.engine.staged_n
            /\ att.after.tracked_n =
                 att.engine.tracked_n + (IF att.engine.fence # NoFence THEN 1 ELSE 0)
            /\ notifies = 0
            /\ IsScenario1(att) =>
                 /\ att.after.active.crtc_active_state
                 /\ att.after.active.mode_blob = 1
                 /\ att.after.active.used_planes = << >>
                 /\ att.after.staged_n = 0

\* A blocking commit has been accepted that was entered with a staged frame
\* pending.
C17_Witness ==
    \E i \in 1..Len(attempts) : \E kc \in attempts[i].kcall :
        /\ ~kc.test /\ ~kc.nonblock /\ kc.res = 0
        /\ attempts[i].engine.fence # NoFence
        /\ attempts[i].after.active.seq = accepted

\* C18: frames_staged_ - frames_tracked_ is 0 or 1 and a fence is tracked
\* exactly when it is 1; both assertions of CleanupPriorFrameResources hold
\* wherever it is about to be called, on the caller thread (the drain) and on
\* the tracker thread, and none has ever failed.
C18_CounterFenceInvariant ==
    /\ frames_staged_ - frames_tracked_ \in {0, 1}
    /\ (last_present_fence_ # NoFence) <=> (frames_staged_ - frames_tracked_ = 1)
    /\ cpc = "drain" => CleanupAsserts
    /\ (tpc = "locked" /\ ~exit_thread_ /\ TrackerMustCleanup) => CleanupAsserts
    /\ ~assert_failed

\* The tracker holds both locks and is about to clean up the one staged
\* frame, whose fence it has waited on.
C18_Witness ==
    /\ tpc = "locked"
    /\ ~exit_thread_
    /\ TrackerMustCleanup
    /\ frames_tracked_ = 0
    /\ frames_staged_ = 1
    /\ present_fence \in waited

\* What a step of the tracker thread does to the engine.  If it changes the
\* engine state, the tracker holds both locks, the tracked fence is the one
\* it captured and has waited on, the staged frame is the frame of that
\* fence, staged at its high-water mark and not promoted before, and the
\* step promotes that frame.  If the caller has promoted that frame
\* meanwhile, the step leaves the engine state alone.  A wake-up with nothing
\* staged since the high-water mark changes neither the engine state nor the
\* tracker's locals.  No step trips an assertion.
TrackerStepOK ==
    /\ engine_vars' # engine_vars =>
         /\ tpc = "locked"
         /\ present_fence # NoFence
         /\ present_fence = last_present_fence_
         /\ present_fence \in waited
         /\ staged_frame_state_.seq = present_fence
         /\ tracking_at_the_moment = frames_staged_
         /\ present_fence \notin InstalledFrames
         /\ installed' = Append(installed, present_fence)
         /\ active_frame_state_' = staged_frame_state_
         /\ frames_tracked_' = frames_tracked_ + 1
         /\ frames_staged_' = frames_staged_
         /\ last_present_fence_' = NoFence
    /\ (tpc = "locked" /\ present_fence \in InstalledFrames) =>
         UNCHANGED << engine_vars, installed >>
    /\ (tpc = "waiting" /\ NothingNewStaged) =>
         /\ UNCHANGED << engine_vars, installed, tracking_at_the_moment, present_fence >>
         /\ tpc' \in {"top", "exited"}
    /\ ~assert_failed'

MainLockHolders ==
    /\ main_mutex = "caller" <=> cpc # "idle"
    /\ main_mutex = "tracker" <=> tpc = "locked"

\* A tracker step changes the engine state only from that block, and then no
\* commit is in progress.
TrackerMutatesLocked ==
    (tpc' # tpc /\ engine_vars' # engine_vars) =>
        tpc = "locked" /\ main_mutex = "tracker" /\ cpc = "idle"

====
